---- MODULE Spec2Model ----
(***************************************************************************)
(* State-machine model of the SEC filing bot: the discovery loop           *)
(* (modules/bg_task.py discover_new_filings), the drain loop               *)
(* (process_analysis_queue, _process_single_job), the quota calculator     *)
(* (calc_current_quota_status), the PostgreSQL tables behind               *)
(* modules/db_manager.py and the overflow handling of                      *)
(* modules/telegram_helper.py.                                             *)
(*                                                                         *)
(* External collaborators (the SEC list fetch, the extraction service, the *)
(* analysis provider, the Telegram transport, the passing of days, storage *)
(* faults, process restarts) are nondeterministic inputs.                  *)
(***************************************************************************)
EXTENDS Integers, Sequences, FiniteSets, TLC

\* ------------------------------------------------------------------ bounds
Tickers == {"A", "B"}
MaxFilings == 3
MaxDay == 2
MaxFaults == 1
CallCap == 4
MaxDue == 2
Recipients == {"u1", "u2"}

\* the retry limit of the specification (config.MAX_RETRY_LIMIT)
maxRetries == 3

\* configs/config.py: values read from the environment
DISCOVER_FILING_AMOUNT == 2
GEMINI_RPM_LIMIT == 2
GEMINI_DAILY_LIMIT == 3

\* configs/types.py AnalysisStatus: the members the enum defines
AnalysisStatus == {"PENDING", "COMPLETED", "FAILED"}

None == <<>>

\* the loop variable `ticker` of discover_new_filings outside the loop
NoTicker == ""

Min(a, b) == IF a <= b THEN a ELSE b

\* a history counter that stops counting at cap
Inc(x, cap) == IF x < cap THEN x + 1 ELSE x

\* configs/types.py FilingType: the form of a filing in the provider's list
FormOf(n) == IF n % 2 = 1 THEN "8-K" ELSE "10-K"

VARIABLES
    \* --- PostgreSQL tables (db_manager.setup_database)
    latest_filings,     \* ticker -> last_accession_number, None when no row
    analysis_queue,     \* set of rows
    analysis_archive,   \* accession_number -> number of rows
    quota,              \* daily_quota_tracker row [date, count]
    subscriptions,      \* tickers with a subscriber
    \* --- environment
    published,          \* ticker -> number of filings the provider lists
    today,              \* current UTC day
    clock,              \* datetime.now() of the next write
    fault,              \* what the storage does to the next statement
    faults,             \* storage faults and restarts so far
    \* --- discover_new_filings
    dpc, dtodo, dticker, dlast, dseen, dclock, dnew, di,
    \* --- process_analysis_queue / _process_single_job
    apc, current_count, has_quota, jobs, ji, success_count,
    \* --- the scheduler's job of process_analysis_queue (main.py)
    timer,              \* [due, overlapping, queued, rejected, merged]
    \* --- send_filing_notification_to_users called on its own
    render,             \* [first, second, len, shorten, sent]
    \* --- get_comprehensive_analysis called on its own
    request,            \* [filing_type, extracted, provider, done, raised, requests, outcome]
    \* --- observation of the run (history)
    callsDay,           \* provider requests issued during the current day
    callsCycle,         \* provider requests issued by the current drain cycle
    failed,             \* the job that failed last and how often it has failed
    send_failed,        \* a send of the latest delivery raised
    attempted,          \* the users the latest delivery tried to send to
    observed,           \* ticker -> newest filing a discovery cycle saw
    skipped             \* tickers whose handling failed in the running cycle

dbVars == <<latest_filings, analysis_queue, analysis_archive, quota>>
envVars == <<published, today, clock, fault, faults>>
discVars == <<dpc, dtodo, dticker, dlast, dseen, dclock, dnew, di>>
drainVars == <<apc, current_count, has_quota, jobs, ji, success_count>>
discHist == <<observed, skipped>>
drainHist == <<callsDay, callsCycle, failed, send_failed, attempted>>
histVars == <<discHist, drainHist>>
vars == <<dbVars, subscriptions, envVars, discVars, drainVars, timer, render,
         request, histVars>>

\* accession numbers: filing n of ticker t
Accessions == Tickers \X (1..MaxFilings)

\* sec_parser.get_recent_filings_list: newest first
RecentFilings(t) ==
    [k \in 1..published[t] |-> <<t, published[t] + 1 - k>>]

\* outcomes of one storage operation under db_manager.get_db_connection:
\*   "ok"        the statement ran and was committed (line 60)
\*   "swallowed" psycopg.Error: rolled back, not re-raised (lines 62-65)
\*   "raised"    any other exception: rolled back, re-raised (lines 66-70)
DbOutcomes == {"ok", "swallowed", "raised"}

\* the storage operation of the step consumes the pending fault
Consumed == fault' = "ok" /\ UNCHANGED faults

\* ---------------------------------------------------------------- tables
\* db_manager.get_last_accession_number: a swallowed psycopg.Error leaves
\* result = None, which reads as "no watermark row"
get_last_accession_number(t, o) ==
    IF o = "ok" THEN latest_filings[t] ELSE None

\* db_manager.update_last_filing_info: INSERT ... ON CONFLICT(ticker) DO UPDATE
update_last_filing_info(lf, acc) ==
    [lf EXCEPT ![acc[1]] = acc]

QueueRow(acc, status, at) ==
    [accession_number |-> acc, ticker |-> acc[1], filing_type |-> FormOf(acc[2]),
     filing_url |-> acc, status |-> status, last_modified_at |-> at]

\* update_analysis_queue without its ON CONFLICT clause on a table without the
\* primary key: every call adds a row
insert_analysis_queue(q, acc, status, at) ==
    q \cup {QueueRow(acc, status, at)}

\* db_manager.update_analysis_queue: INSERT ... ON CONFLICT(accession_number)
\* DO UPDATE SET status, last_modified_at
update_analysis_queue(q, acc, status, at) ==
    IF \E r \in q : r.accession_number = acc
    THEN {IF r.accession_number = acc
          THEN [r EXCEPT !.status = status, !.last_modified_at = at]
          ELSE r : r \in q}
    ELSE q \cup {QueueRow(acc, status, at)}

\* remove_analysis_queue with a DELETE that matches no row
remove_nothing(q, acc) == q

\* db_manager.remove_analysis_queue: DELETE ... WHERE accession_number = %s
remove_analysis_queue(q, acc) ==
    {r \in q : r.accession_number # acc}

\* analysis_archive has PRIMARY KEY (accession_number): a second INSERT of the
\* same key is a UniqueViolation, a psycopg.Error
ArchiveHas(a, acc) == a[acc] > 0

\* db_manager.insert_analysis_archive: plain INSERT of one more row
insert_analysis_archive(a, acc) ==
    [a EXCEPT ![acc] = @ + 1]

\* --------------------------------------------------------------- discovery
\* the walk of lines 97-102 without the comparison of line 99
CollectAll(list, last) == list

\* bg_task.discover_new_filings lines 97-102: walk the list newest first and
\* stop at the stored watermark
RECURSIVE CollectNew(_, _)
CollectNew(list, last) ==
    IF list = <<>> THEN <<>>
    ELSE IF Head(list) = last THEN <<>>
    ELSE <<Head(list)>> \o CollectNew(Tail(list), last)

\* the slice of line 105 taken from the other end:
\* new_filings_to_process[-config.DISCOVER_FILING_AMOUNT:]
CapOldest(new) ==
    SubSeq(new, Len(new) + 1 - Min(Len(new), DISCOVER_FILING_AMOUNT), Len(new))

\* the collected filings without the slice of line 105
NoCap(new) == new

\* line 105: new_filings_to_process[:config.DISCOVER_FILING_AMOUNT]
CapNew(new) == SubSeq(new, 1, Min(Len(new), DISCOVER_FILING_AMOUNT))

\* the handler of a ticker without its continue: the error ends the cycle
abort_loop == "idle"

\* lines 128-133: the handler of a ticker logs and continues with the next one
continue_loop == "ticker"

\* line 86: tickers = get_all_subscribed_tickers()
discover_start ==
    /\ UNCHANGED <<render, request, subscriptions, timer>>
    /\ dpc = "idle"
    /\ LET o == fault IN
         /\ Consumed
         /\ IF o = "ok"
            THEN dpc' = "ticker" /\ dtodo' = subscriptions
            ELSE IF o = "swallowed"
            THEN dpc' = "ticker" /\ dtodo' = {}
            ELSE dpc' = "idle" /\ dtodo' = {}
    /\ skipped' = {}
    /\ UNCHANGED <<dbVars, published, today, clock, dticker, dlast, dseen,
                   dclock, dnew, di, drainVars, observed, drainHist>>

\* lines 88-106: one ticker of the loop up to the first upsert.
\* fetch: "list" the provider's answer, "empty" a RequestException (returns []),
\* "raise" any other error, caught by the handler of line 128, "no_cik" the
\* continue of line 91 (sec_parser line 169 reads config.SEC_TICKER_HEADER,
\* which configs/config.py leaves to the deployment)
discover_ticker ==
    /\ UNCHANGED <<render, request, subscriptions, timer>>
    /\ dpc = "ticker"
    /\ \E t \in dtodo, fetch \in {"list", "empty", "raise", "no_cik"} :
         LET o == fault
             last == get_last_accession_number(t, o)
             list == IF fetch = "list" THEN RecentFilings(t) ELSE <<>>
             new == CapNew(CollectNew(list, last))
         IN  /\ IF fetch = "no_cik" THEN UNCHANGED <<fault, faults>> ELSE Consumed
             /\ dtodo' = dtodo \ {t}
             /\ dticker' = t
             /\ dclock' = clock
             /\ IF fetch = "no_cik" \/ o = "raised" \/ fetch = "raise"
                THEN /\ dpc' = continue_loop
                     /\ dlast' = None /\ dseen' = 0 /\ dnew' = <<>> /\ di' = 0
                ELSE /\ dpc' = IF new = <<>> THEN "ticker" ELSE "upsert"
                     /\ dlast' = last
                     /\ dseen' = Len(list)
                     /\ dnew' = new
                     /\ di' = 1
             /\ observed' = IF o # "raised" /\ fetch = "list" /\ list # <<>>
                            THEN [observed EXCEPT ![t] = list[1]]
                            ELSE observed
             /\ skipped' = IF fetch # "list" \/ o # "ok"
                           THEN skipped \cup {t} ELSE skipped
    /\ UNCHANGED <<dbVars, published, today, clock, drainVars, drainHist>>

\* line 107 without reversed(): the filings in the provider's order
NotReversed(new) == new

\* line 107: reversed(new_filings_to_process)
Reversed(new) == [k \in 1..Len(new) |-> new[Len(new) + 1 - k]]

\* lines 107-116: for new_filing in reversed(new): update_analysis_queue(PENDING)
discover_upsert ==
    /\ UNCHANGED <<render, request, subscriptions, timer>>
    /\ dpc = "upsert"
    /\ LET o == fault
           new_filing == Reversed(dnew)[di]
       IN
         /\ Consumed
         /\ IF o = "ok"
            THEN /\ analysis_queue' =
                       update_analysis_queue(analysis_queue, new_filing, "PENDING", clock)
                 /\ clock' = clock + 1
            ELSE UNCHANGED <<analysis_queue, clock>>
         /\ IF o = "raised"
            THEN dpc' = continue_loop /\ UNCHANGED di
            ELSE /\ di' = di + 1
                 /\ dpc' = IF di = Len(dnew) THEN "mark" ELSE "upsert"
         /\ skipped' = IF o # "ok" THEN skipped \cup {dticker} ELSE skipped
    /\ UNCHANGED <<dticker, dlast, dseen, dclock, dnew>>
    /\ UNCHANGED <<latest_filings, analysis_archive, quota, published, today, dtodo,
                   drainVars, observed, drainHist>>

\* lines 118-127: update_last_filing_info(new_filings_to_process[0])
discover_mark ==
    /\ UNCHANGED <<render, request, subscriptions, timer>>
    /\ dpc = "mark"
    /\ LET o == fault IN
         /\ Consumed
         /\ latest_filings' = IF o = "ok"
                              THEN update_last_filing_info(latest_filings, dnew[1])
                              ELSE latest_filings
         /\ dpc' = IF o = "raised" THEN continue_loop ELSE "ticker"
         /\ skipped' = IF o # "ok" THEN skipped \cup {dticker} ELSE skipped
    /\ UNCHANGED <<analysis_queue, analysis_archive, quota, published, today, clock,
                   dtodo, dticker, dlast, dseen, dclock, dnew, di, drainVars,
                   observed, drainHist>>

\* the for loop of line 88 is exhausted
discover_done ==
    /\ UNCHANGED <<render, request, subscriptions, timer>>
    /\ dpc = "ticker"
    /\ dtodo = {}
    /\ dpc' = "idle"
    /\ dticker' = NoTicker /\ dlast' = None /\ dseen' = 0 /\ dclock' = 0
    /\ dnew' = <<>> /\ di' = 0
    /\ skipped' = {}
    /\ UNCHANGED <<dbVars, envVars, dtodo, drainVars, observed, drainHist>>

\* ------------------------------------------------------------------- quota
\* db_manager.get_quota_status: when the row cannot be read the function
\* falls through to the sentinel {1970-01-01, 999}
get_quota_status(o) ==
    IF o = "ok" THEN quota ELSE [date |-> 0, count |-> 999]

\* calc_current_quota_status without the min() of line 194: the grant is all
\* that is left of the day
calc_without_rpm(quota_status, today_utc) ==
    LET cnt == IF quota_status.date = today_utc THEN quota_status.count ELSE 0
    IN  IF cnt >= GEMINI_DAILY_LIMIT
        THEN [count |-> GEMINI_DAILY_LIMIT, grant |-> 0]
        ELSE [count |-> cnt, grant |-> GEMINI_DAILY_LIMIT - cnt]

\* calc_current_quota_status without the date comparison of line 179: the
\* stored count is used whatever its date
calc_ignoring_date(quota_status, today_utc) ==
    LET cnt == quota_status.count
    IN  IF cnt >= GEMINI_DAILY_LIMIT
        THEN [count |-> GEMINI_DAILY_LIMIT, grant |-> 0]
        ELSE [count |-> cnt,
              grant |-> Min(GEMINI_RPM_LIMIT, GEMINI_DAILY_LIMIT - cnt)]

\* bg_task.calc_current_quota_status: (current_count, grant)
calc_current_quota_status(quota_status, today_utc) ==
    LET cnt == IF quota_status.date = today_utc THEN quota_status.count ELSE 0
    IN  IF cnt >= GEMINI_DAILY_LIMIT
        THEN [count |-> GEMINI_DAILY_LIMIT, grant |-> 0]
        ELSE [count |-> cnt,
              grant |-> Min(GEMINI_RPM_LIMIT, GEMINI_DAILY_LIMIT - cnt)]

\* calc_current_quota_status writing the reset back when the stored date is
\* not today
quota_reset_on_read(q, today_utc) ==
    IF q.date = today_utc THEN q ELSE [date |-> today_utc, count |-> 0]

\* the quota row after calc_current_quota_status (lines 167-196): the function
\* reads the row and holds the reset count in a local only
quota_after_calc(q, today_utc) == q

\* db_manager.update_quota_count: UPDATE ... SET request_count, quota_date
update_quota_count(new_count, date_obj) ==
    [date |-> date_obj, count |-> new_count]

\* ------------------------------------------------------------------- queue
\* ORDER BY last_modified_at ASC
RECURSIVE OrderByModified(_)
OrderByModified(rows) ==
    IF rows = {} THEN <<>>
    ELSE LET r == CHOOSE x \in rows :
                    \A y \in rows : x.last_modified_at <= y.last_modified_at
         IN  <<r>> \o OrderByModified(rows \ {r})

\* the SELECT of db_manager.get_pending_jobs: WHERE status = 'PENDING'
\* ORDER BY last_modified_at ASC LIMIT %s
SelectPending(q, limit) ==
    LET s == OrderByModified({r \in q : r.status = "PENDING"})
    IN  SubSeq(s, 1, Min(Len(s), limit))

\* configs/types.py FilingInfo: the dataclass constructor; the fields without
\* a default are required keywords
FilingInfoRequired ==
    {"accession_number", "ticker", "filing_type", "filing_date", "filing_url", "status"}

\* TRUE when the constructor accepts the keywords, FALSE when it raises
\* TypeError (missing required argument)
FilingInfoAccepts(kw) == FilingInfoRequired \subseteq DOMAIN kw

FilingInfo(kw) == kw @@ [gemini_analysis |-> None, retry_count |-> 0]

\* the keywords get_pending_jobs passes for a row (lines 223-229)
PendingJobKeywords(row) ==
    [accession_number |-> row.accession_number, ticker |-> row.ticker,
     filing_type |-> row.filing_type, filing_url |-> row.filing_url,
     status |-> "PENDING"]

\* db_manager.get_pending_jobs: the list of jobs; raised is TRUE when the
\* constructor rejects the keywords of a row (TypeError)
get_pending_jobs(q, limit) ==
    LET rows == SelectPending(q, limit)
    IN  IF \E i \in 1..Len(rows) : ~FilingInfoAccepts(PendingJobKeywords(rows[i]))
        THEN [raised |-> TRUE, jobs |-> <<>>]
        ELSE [raised |-> FALSE,
              jobs |-> [i \in 1..Len(rows) |-> FilingInfo(PendingJobKeywords(rows[i]))]]

\* the jobs of the same rows as a caller builds them that passes every
\* required keyword (tests/test_e2e.py lines 43-50)
BuiltJobs(q, limit) ==
    LET rows == SelectPending(q, limit)
    IN  [i \in 1..Len(rows) |->
            FilingInfo(PendingJobKeywords(rows[i]) @@ [filing_date |-> "date"])]

\* ------------------------------------------------------------------- drain
\* the locals of process_analysis_queue once the cycle is over
EndCycle ==
    /\ apc' = "idle"
    /\ current_count' = 0 /\ has_quota' = 0
    /\ jobs' = <<>> /\ ji' = 0 /\ success_count' = 0

\* lines 142-145: current_count, has_quota = calc_current_quota_status()
start_cycle ==
    /\ apc = "idle"
    /\ LET o == fault IN
         LET st == calc_current_quota_status(get_quota_status(o), today)
         IN  /\ Consumed
             /\ IF o = "raised" \/ st.grant = 0
                THEN EndCycle
                ELSE /\ apc' = "dequeue"
                     /\ current_count' = st.count
                     /\ has_quota' = st.grant
                     /\ UNCHANGED <<jobs, ji, success_count>>
    /\ callsCycle' = 0
    /\ quota' = quota_after_calc(quota, today)
    /\ UNCHANGED <<latest_filings, analysis_queue, analysis_archive, published,
                   today, clock, discVars, discHist, callsDay, failed,
                   send_failed, attempted>>

\* a drain cycle is started (the timer is not looked at)
process_analysis_queue ==
    /\ UNCHANGED <<render, request, subscriptions, timer>>
    /\ start_cycle

\* lines 147-150: jobs = get_pending_jobs(has_quota).  The TypeError of the
\* constructor leaves get_db_connection through its `raise` and ends the cycle
dequeue ==
    /\ UNCHANGED <<render, request, subscriptions, timer>>
    /\ apc = "dequeue"
    /\ LET o == fault IN
         LET res == IF o = "ok" THEN get_pending_jobs(analysis_queue, has_quota)
                    ELSE [raised |-> FALSE, jobs |-> <<>>]
         IN  /\ Consumed
             /\ IF o = "raised" \/ res.raised \/ res.jobs = <<>>
                THEN EndCycle
                ELSE /\ apc' = "job"
                     /\ jobs' = res.jobs
                     /\ ji' = 1
                     /\ success_count' = 0
                     /\ UNCHANGED <<current_count, has_quota>>
    /\ UNCHANGED <<dbVars, published, today, clock, discVars, histVars>>

\* lines 152-159 entered with the jobs of BuiltJobs
dequeue_built ==
    /\ UNCHANGED <<render, request, subscriptions, timer>>
    /\ apc = "dequeue"
    /\ LET o == fault IN
         LET res == IF o = "ok" THEN BuiltJobs(analysis_queue, has_quota) ELSE <<>>
         IN  /\ Consumed
             /\ IF o = "raised" \/ res = <<>>
                THEN EndCycle
                ELSE /\ apc' = "job"
                     /\ jobs' = res
                     /\ ji' = 1
                     /\ success_count' = 0
                     /\ UNCHANGED <<current_count, has_quota>>
    /\ UNCHANGED <<dbVars, published, today, clock, discVars, histVars>>

\* -------------------------------------------------------- _process_single_job
\* telegram_helper.TELEGRAM_MAX_LENGTH and len(tail) of line 76
TELEGRAM_MAX_LENGTH == 4096
TailLength == 34

\* lines 66-78 without the cut of lines 75-77
RenderWithoutCut(first, second) ==
    IF first > TELEGRAM_MAX_LENGTH
    THEN [len |-> second, shorten |-> 1]
    ELSE [len |-> first, shorten |-> 0]

\* telegram_helper.send_filing_notification_to_users lines 66-78 on lengths:
\* first   len(_build_message(...)) of the analysis
\* second  len(_build_message(...)) of what shorten_analysis returned
\* The result: the length of msg and the number of shorten_analysis calls
RenderMessage(first, second) ==
    IF first > TELEGRAM_MAX_LENGTH
    THEN IF second > TELEGRAM_MAX_LENGTH
         THEN [len |-> Min(second, TELEGRAM_MAX_LENGTH - TailLength) + TailLength,
               shorten |-> 1]
         ELSE [len |-> second, shorten |-> 1]
    ELSE [len |-> first, shorten |-> 0]

\* ---------------------------------------------------------------- analysis
\* gemini_helper._build_prompt lines 55 and 121: the filing types with a prompt
PromptTypes == {"10-K", "10-Q", "8-K"}

\* _build_prompt returning None for a filing type without a prompt instead of
\* raising
build_prompt_or_none(filing_type) ==
    IF filing_type \in PromptTypes THEN "prompt" ELSE "none"

\* gemini_helper._build_prompt: the prompt, or the ValueError of line 191
build_prompt(filing_type) ==
    IF filing_type \in PromptTypes THEN "prompt" ELSE "ValueError"

\* gemini_helper.get_comprehensive_analysis.  _build_prompt is called outside
\* the try of line 238, so its ValueError leaves the function; an empty prompt
\* returns None (lines 235-237); inside the try every failure returns None.
\* provider: "json" an answer with a JSON object of the five fields, "partial"
\* a JSON object that lacks some of them (json.loads of line 262 accepts it),
\* "no_json" an answer without a JSON object, "error" the request raised
get_comprehensive_analysis(filing_type, provider) ==
    LET prompt == build_prompt(filing_type)
    IN  IF prompt = "ValueError"
        THEN [raised |-> TRUE, requests |-> 0, result |-> "none"]
        ELSE IF prompt = "none"
        THEN [raised |-> FALSE, requests |-> 0, result |-> "none"]
        ELSE [raised |-> FALSE, requests |-> 1,
              result |-> IF provider = "json" THEN "analysis"
                         ELSE IF provider = "partial" THEN "partial"
                         ELSE "none"]

\* bg_task._process_single_job line 27, `not extracted_data`.  "data" and
\* "empty" are ExtractedFilingData objects, the second with every field None;
\* the class defines neither __bool__ nor __len__, so both are true
NotExtracted(extracted_data) == extracted_data = "None"

\* bg_task._process_single_job lines 31-41: a raise and an empty result both
\* end in the except handler of line 58
AnalysisStep(r) ==
    IF r.raised \/ r.result = "none" THEN "failure" ELSE "analysed"

\* the job the loop of line 156 is at
Job == jobs[ji]

\* lines 58-78, the handler of a failed job: retry_count += 1, then line 67
\* reads config.MAX_RETRY_LIMIT, which configs/config.py does not define: the
\* AttributeError leaves _process_single_job and process_analysis_queue
\* before update_analysis_queue is reached
failure_of(cause) ==
    /\ failed' = [acc |-> Job.accession_number, cause |-> cause,
                   n |-> IF failed.acc = Job.accession_number
                         THEN Inc(failed.n, maxRetries + 1) ELSE 1]
    /\ send_failed' = FALSE /\ attempted' = {}
    /\ EndCycle

\* the handler entered for a failure that a later attempt may not meet
failure_path == failure_of("transient")

\* the job goes on to its next statement
job_continues(pc) ==
    /\ apc' = pc
    /\ UNCHANGED <<current_count, has_quota, jobs, ji, success_count, failed,
                   send_failed, attempted>>

\* line 56, return True, and lines 158-159
job_succeeded ==
    /\ success_count' = success_count + 1
    /\ ji' = ji + 1
    /\ apc' = IF ji = Len(jobs) THEN "quota" ELSE "job"
    /\ UNCHANGED <<current_count, has_quota, jobs, failed, send_failed, attempted>>

\* lines 21-44: extraction, then the analysis request.
\* extract: "data" | "empty" (an ExtractedFilingData with no field set, which is
\* truthy) | "raise";  provider: the answer of the analysis provider
job_analyse ==
    /\ UNCHANGED <<render, request, subscriptions, timer>>
    /\ apc = "job"
    /\ \E extract \in {"data", "empty", "raise"},
          provider \in {"json", "partial", "no_json", "error"} :
         IF extract = "raise" \/ NotExtracted(extract)
         THEN /\ failure_path
              /\ UNCHANGED <<callsDay, callsCycle>>
         ELSE LET r == get_comprehensive_analysis(Job.filing_type, provider)
              IN  /\ callsDay' = IF r.requests = 1 THEN Inc(callsDay, CallCap)
                                 ELSE callsDay
                  /\ callsCycle' = IF r.requests = 1 THEN Inc(callsCycle, CallCap)
                                   ELSE callsCycle
                  /\ IF r.raised
                     THEN failure_of("precondition")
                     ELSE IF AnalysisStep(r) = "failure"
                     THEN failure_path
                     ELSE job_continues("archive")
    /\ UNCHANGED <<dbVars, envVars, discVars, discHist>>

\* lines 21-25 for a job whose ticker is not in the local ticker list (any
\* more): extract_filing_data raises ValueError (sec_parser lines 44-48)
job_no_cik ==
    /\ UNCHANGED <<render, request, subscriptions, timer>>
    /\ apc = "job"
    /\ failure_of("precondition")
    /\ UNCHANGED <<callsDay, callsCycle>>
    /\ UNCHANGED <<dbVars, envVars, discVars, discHist>>

\* line 48: insert_analysis_archive(job).  A key that is already archived is a
\* UniqueViolation, which get_db_connection swallows like any psycopg.Error
job_archive ==
    /\ UNCHANGED <<render, request, subscriptions, timer>>
    /\ apc = "archive"
    /\ LET o == fault IN
         /\ Consumed
         /\ analysis_archive' =
               IF o = "ok" /\ ~ArchiveHas(analysis_archive, Job.accession_number)
               THEN insert_analysis_archive(analysis_archive, Job.accession_number)
               ELSE analysis_archive
         /\ IF o = "raised" THEN failure_path ELSE job_continues("send")
    /\ UNCHANGED <<latest_filings, analysis_queue, quota, published, today, clock, discVars, discHist, callsDay, callsCycle>>

\* db_manager.get_users_for_ticker: the subscribers, [] after a swallowed error
get_users_for_ticker(t, o) == IF o = "ok" THEN Recipients ELSE {}

\* the loop of lines 80-85 without its try/except: the send to a refusing
\* user, here the first of the list, raises out of the function
SendUnprotected(users, refused) ==
    IF users \cap refused = {}
    THEN [attempted |-> users, reached |-> users, raised |-> FALSE]
    ELSE [attempted |-> {CHOOSE u \in users \cap refused : TRUE}, reached |-> {},
          raised |-> TRUE]

\* telegram_helper lines 80-85: one send per user, each in its own try/except;
\* the sends to the users in refused raise and are logged
SendToUsers(users, refused) ==
    [attempted |-> users, reached |-> users \ refused, raised |-> FALSE]

\* line 49: send_filing_notification_to_users(job): render, at most one
\* shorten_analysis request, get_users_for_ticker, one send per user.  The
\* analysis is taken to hold the strings _build_message expects
job_send ==
    /\ UNCHANGED <<render, request, subscriptions, timer>>
    /\ apc = "send"
    /\ \E first, second \in {1, TELEGRAM_MAX_LENGTH + 1} :
         LET o == fault
             r == RenderMessage(first, second)
             users == get_users_for_ticker(Job.ticker, o)
         IN  /\ Consumed
             /\ callsDay' = IF r.shorten = 1 THEN Inc(callsDay, CallCap) ELSE callsDay
             /\ callsCycle' = IF r.shorten = 1 THEN Inc(callsCycle, CallCap)
                              ELSE callsCycle
             /\ \E refused \in SUBSET Recipients :
                  LET d == SendToUsers(users, refused)
                  IN  IF o = "raised" \/ d.raised
                      THEN failure_path
                      ELSE /\ send_failed' = (d.reached # users)
                           /\ attempted' = d.attempted
                           /\ apc' = "remove"
                           /\ UNCHANGED <<current_count, has_quota, jobs, ji,
                                          success_count, failed>>
    /\ UNCHANGED <<dbVars, published, today, clock, discVars, discHist>>

\* line 50: remove_analysis_queue(job), then return True
job_remove ==
    /\ UNCHANGED <<render, request, subscriptions, timer>>
    /\ apc = "remove"
    /\ LET o == fault IN
         /\ Consumed
         /\ analysis_queue' = IF o = "ok"
                              THEN remove_analysis_queue(analysis_queue, Job.accession_number)
                              ELSE analysis_queue
         /\ IF o = "raised" THEN failure_path ELSE job_succeeded
    /\ UNCHANGED <<latest_filings, analysis_archive, quota, published, today, clock, discVars, discHist, callsDay, callsCycle>>

\* lines 161-164: update_quota_count(current_count + success_count, now)
record_usage ==
    /\ UNCHANGED <<render, request, subscriptions, timer>>
    /\ apc = "quota"
    /\ LET o == fault IN
         /\ Consumed
         /\ quota' = IF success_count > 0 /\ o = "ok"
                     THEN update_quota_count(current_count + success_count, today)
                     ELSE quota
    /\ EndCycle
    /\ send_failed' = FALSE /\ attempted' = {}
    /\ UNCHANGED <<latest_filings, analysis_queue, analysis_archive, published,
                   today, clock, discVars, discHist, callsDay, callsCycle,
                   failed>>

\* -------------------------------------------------------------------- timer
\* main.py line 138: max_instances of the process_analysis_queue job
max_instances == 1

\* main.py line 139: coalesce of the process_analysis_queue job
coalesce == TRUE

\* no run time is due, nothing was submitted
NoTick == [due |-> 0, overlapping |-> 0, queued |-> 0, rejected |-> FALSE,
           merged |-> 0]

\* the instances of the job that are running
Instances == (IF apc # "idle" THEN 1 ELSE 0) + timer.overlapping

\* an executor that accepts every run
submit_always(running) == TRUE

\* the executor accepts a run while fewer than max_instances are running
submit_job(running) == running < max_instances

\* the run times handed to one instance: the last one alone when the job
\* coalesces, all that are due otherwise
run_times(due) == IF coalesce THEN 1 ELSE due

\* main.py line 136: a run time of the interval trigger comes due; several
\* are due together when the scheduler could not wake up in between
drain_due ==
    /\ UNCHANGED <<render, request, subscriptions>>
    /\ timer.due < MaxDue
    /\ timer' = [timer EXCEPT !.due = @ + 1]
    /\ UNCHANGED <<dbVars, envVars, discVars, drainVars, histVars>>

\* the scheduler wakes up and processes the due run times of the job: the
\* run is rejected when max_instances are running, else one instance starts
\* with run_times(due) run times, of which it executes the first at once
drain_wakeup ==
    /\ UNCHANGED <<render, request, subscriptions>>
    /\ timer.due > 0
    /\ IF ~submit_job(Instances)
       THEN /\ timer' = [timer EXCEPT !.due = 0, !.rejected = TRUE,
                                      !.merged = timer.due]
            /\ UNCHANGED <<dbVars, envVars, discVars, drainVars, histVars>>
       ELSE IF apc = "idle"
       THEN /\ timer' = [timer EXCEPT !.due = 0, !.rejected = FALSE,
                                      !.merged = timer.due,
                                      !.queued = run_times(timer.due) - 1]
            /\ start_cycle
       ELSE /\ timer' = [timer EXCEPT !.due = 0, !.rejected = FALSE,
                                      !.merged = timer.due,
                                      !.overlapping = Inc(@, MaxDue)]
            /\ UNCHANGED <<dbVars, envVars, discVars, drainVars, histVars>>

\* ------------------------------------------------------------- environment
\* the provider lists one more filing of ticker t
Publish ==
    /\ UNCHANGED <<render, request, subscriptions, timer>>
    /\ \E t \in subscriptions :
         /\ published[t] < MaxFilings
         /\ published' = [published EXCEPT ![t] = @ + 1]
    /\ UNCHANGED <<dbVars, today, clock, fault, faults, discVars, drainVars,
                   histVars>>

\* midnight UTC passes
NextDay ==
    /\ UNCHANGED <<render, request, subscriptions, timer>>
    /\ today < MaxDay
    /\ today' = today + 1
    /\ callsDay' = 0
    /\ UNCHANGED <<dbVars, published, clock, fault, faults, discVars,
                   drainVars, discHist, callsCycle, failed, send_failed, attempted>>

\* the storage fails the next statement
StorageFault ==
    /\ UNCHANGED <<render, request, subscriptions, timer>>
    /\ fault = "ok"
    /\ faults < MaxFaults
    /\ fault' \in DbOutcomes \ {"ok"}
    /\ faults' = faults + 1
    /\ UNCHANGED <<dbVars, published, today, clock, discVars, drainVars,
                   histVars>>

\* the process is killed and started again: the tables stay, both loops start over
Restart ==
    /\ UNCHANGED <<render, request, subscriptions, timer>>
    /\ faults < MaxFaults
    /\ faults' = faults + 1
    /\ dpc' = "idle" /\ dtodo' = {}
    /\ dticker' = NoTicker /\ dlast' = None /\ dseen' = 0 /\ dclock' = 0
    /\ dnew' = <<>> /\ di' = 0
    /\ apc' = "idle" /\ current_count' = 0 /\ has_quota' = 0
    /\ jobs' = <<>> /\ ji' = 0 /\ success_count' = 0
    /\ callsCycle' = 0 /\ send_failed' = FALSE /\ attempted' = {}
    /\ skipped' = {}
    /\ UNCHANGED <<dbVars, published, today, clock, fault, observed, callsDay, failed>>

\* ----------------------------------------------------------- specification
Init ==
    /\ latest_filings = [t \in Tickers |-> None]
    /\ analysis_queue = {}
    /\ analysis_archive = [a \in Accessions |-> 0]
    /\ quota = [date |-> 0, count |-> 0]
    /\ subscriptions = {"A"}
    /\ published = [t \in Tickers |-> 0]
    /\ today = 1
    /\ clock = 1
    /\ fault = "ok"
    /\ faults = 0
    /\ dpc = "idle" /\ dtodo = {}
    /\ dticker = NoTicker /\ dlast = None /\ dseen = 0 /\ dclock = 0
    /\ dnew = <<>> /\ di = 0
    /\ apc = "idle" /\ current_count = 0 /\ has_quota = 0
    /\ jobs = <<>> /\ ji = 0 /\ success_count = 0
    /\ callsDay = 0 /\ callsCycle = 0
    /\ failed = [acc |-> None, cause |-> "none", n |-> 0]
    /\ send_failed = FALSE
    /\ attempted = {}
    /\ timer = NoTick
    /\ render = None
    /\ request = None
    /\ observed = [t \in Tickers |-> None]
    /\ skipped = {}

Discovery == discover_start \/ discover_ticker \/ discover_upsert
             \/ discover_mark \/ discover_done

\* the program as it is wired in main.py
Next == Discovery \/ process_analysis_queue \/ dequeue
        \/ Publish \/ NextDay \/ StorageFault \/ Restart

Spec == Init /\ [][Next]_vars

\* the drain loop driven with jobs built with every required keyword
DrainJobs == process_analysis_queue \/ dequeue_built \/ job_analyse \/ job_archive
             \/ job_send \/ job_remove \/ record_usage

\* ... with a storage that never fails and a process that is never killed
NextJobs == Discovery \/ DrainJobs \/ Publish \/ NextDay

SpecJobs == Init /\ [][NextJobs]_vars

\* ... with storage faults and restarts, within one day
NextFaults == Discovery \/ DrainJobs \/ Publish \/ StorageFault \/ Restart

SpecFaults == Init /\ [][NextFaults]_vars

\* ------------------------------------------------- loops that keep running
\* ... within one day, with a storage that never fails
NextLive == Discovery \/ DrainJobs \/ Publish

\* main.py adds both loops as interval jobs of the scheduler, and a handler
\* that was started runs on: neither loop stays enabled for ever without a step
\* (every step of a loop moves its position: discPos, drainPos)
discPos == <<dpc, dtodo, di>>
drainPos == <<apc, ji>>

SpecLive ==
    /\ Init /\ [][NextLive]_vars
    /\ WF_discPos(Discovery)
    /\ WF_drainPos(DrainJobs)

\* ------------------------------------------------ rendering on its own
\* lengths of the two renderings around TELEGRAM_MAX_LENGTH and around
\* TELEGRAM_MAX_LENGTH - TailLength
Lengths == {200, 4061, 4062, 4063, 4095, 4096, 4097, 4130, 5000, 100000}

\* send_filing_notification_to_users lines 62-78 called with a filing whose
\* renderings have the lengths render.first and render.second
render_message ==
    /\ render # None
    /\ ~render.sent
    /\ LET r == RenderMessage(render.first, render.second)
       IN  render' = [render EXCEPT !.len = r.len, !.shorten = r.shorten,
                                    !.sent = TRUE]
    /\ UNCHANGED <<dbVars, envVars, discVars, drainVars, histVars, request, subscriptions, timer>>

InitRender ==
    /\ latest_filings = [t \in Tickers |-> None]
    /\ analysis_queue = {}
    /\ analysis_archive = [a \in Accessions |-> 0]
    /\ quota = [date |-> 0, count |-> 0]
    /\ subscriptions = {"A"}
    /\ published = [t \in Tickers |-> 0]
    /\ today = 1
    /\ clock = 1
    /\ fault = "ok"
    /\ faults = 0
    /\ dpc = "idle" /\ dtodo = {}
    /\ dticker = NoTicker /\ dlast = None /\ dseen = 0 /\ dclock = 0
    /\ dnew = <<>> /\ di = 0
    /\ apc = "idle" /\ current_count = 0 /\ has_quota = 0
    /\ jobs = <<>> /\ ji = 0 /\ success_count = 0
    /\ callsDay = 0 /\ callsCycle = 0
    /\ failed = [acc |-> None, cause |-> "none", n |-> 0]
    /\ send_failed = FALSE
    /\ attempted = {}
    /\ timer = NoTick
    /\ observed = [t \in Tickers |-> None]
    /\ skipped = {}
    /\ render \in [first : Lengths, second : Lengths, len : {0}, shorten : {0},
                   sent : {FALSE}]
    /\ request = None

SpecRender == InitRender /\ [][render_message]_vars

\* ------------------------------------------- jobs of tickers without a CIK
\* ... and a ticker list that may lose the ticker of a queued filing
NextMapping == NextJobs \/ job_no_cik

SpecMapping == Init /\ [][NextMapping]_vars

\* ------------------------------------------------- the drain on its timer
\* the drain loop started by the scheduler only
NextTimer == drain_due \/ drain_wakeup \/ dequeue_built \/ job_analyse
             \/ job_archive \/ job_send \/ job_remove \/ record_usage
             \/ Discovery \/ Publish

SpecTimer == Init /\ [][NextTimer]_vars

\* ------------------------------------------------- several tickers
\* every ticker has a subscriber
InitTickers ==
    /\ latest_filings = [t \in Tickers |-> None]
    /\ analysis_queue = {}
    /\ analysis_archive = [a \in Accessions |-> 0]
    /\ quota = [date |-> 0, count |-> 0]
    /\ subscriptions = Tickers
    /\ published = [t \in Tickers |-> 0]
    /\ today = 1
    /\ clock = 1
    /\ fault = "ok"
    /\ faults = 0
    /\ dpc = "idle" /\ dtodo = {}
    /\ dticker = NoTicker /\ dlast = None /\ dseen = 0 /\ dclock = 0
    /\ dnew = <<>> /\ di = 0
    /\ apc = "idle" /\ current_count = 0 /\ has_quota = 0
    /\ jobs = <<>> /\ ji = 0 /\ success_count = 0
    /\ callsDay = 0 /\ callsCycle = 0
    /\ failed = [acc |-> None, cause |-> "none", n |-> 0]
    /\ send_failed = FALSE
    /\ attempted = {}
    /\ timer = NoTick
    /\ render = None
    /\ request = None
    /\ observed = [t \in Tickers |-> None]
    /\ skipped = {}

\* discovery alone, with a storage that may fail
NextTickers == Discovery \/ Publish \/ StorageFault

SpecTickers == InitTickers /\ [][NextTickers]_vars

\* ------------------------------------------------- analysis on its own
\* filing types a job can carry: the three with a prompt and others of the SEC
FilingTypes == PromptTypes \cup {"13-F", "3", "4", "S-4", "SC 13G", "DEF 14A"}

\* _process_single_job lines 27-41 for a job of request.filing_type whose
\* extraction returned request.extracted
analyse_request ==
    /\ request # None
    /\ ~request.done
    /\ LET r == get_comprehensive_analysis(request.filing_type, request.provider)
       IN  request' = IF NotExtracted(request.extracted)
                      THEN [request EXCEPT !.done = TRUE, !.outcome = "failure"]
                      ELSE [request EXCEPT !.done = TRUE, !.raised = r.raised,
                                           !.requests = r.requests,
                                           !.outcome = AnalysisStep(r)]
    /\ UNCHANGED <<dbVars, envVars, discVars, drainVars, histVars, render, subscriptions, timer>>

InitRequest ==
    /\ latest_filings = [t \in Tickers |-> None]
    /\ analysis_queue = {}
    /\ analysis_archive = [a \in Accessions |-> 0]
    /\ quota = [date |-> 0, count |-> 0]
    /\ subscriptions = {"A"}
    /\ published = [t \in Tickers |-> 0]
    /\ today = 1
    /\ clock = 1
    /\ fault = "ok"
    /\ faults = 0
    /\ dpc = "idle" /\ dtodo = {}
    /\ dticker = NoTicker /\ dlast = None /\ dseen = 0 /\ dclock = 0
    /\ dnew = <<>> /\ di = 0
    /\ apc = "idle" /\ current_count = 0 /\ has_quota = 0
    /\ jobs = <<>> /\ ji = 0 /\ success_count = 0
    /\ callsDay = 0 /\ callsCycle = 0
    /\ failed = [acc |-> None, cause |-> "none", n |-> 0]
    /\ send_failed = FALSE
    /\ attempted = {}
    /\ timer = NoTick
    /\ observed = [t \in Tickers |-> None]
    /\ skipped = {}
    /\ render = None
    /\ request \in [filing_type : FilingTypes, extracted : {"data", "empty"},
                    provider : {"json", "partial", "no_json", "error"},
                    done : {FALSE},
                    raised : {FALSE}, requests : {0}, outcome : {"pending"}]

SpecRequest == InitRequest /\ [][analyse_request]_vars

\* ------------------------------------------------------------------ claims
\* a row of the queue for accession number a
Queued(q, a) == \E r \in q : r.accession_number = a

\* C1: the requests issued to the analysis provider (analysis calls that
\* succeed or fail, and condense requests) never exceed GEMINI_DAILY_LIMIT
\* within one day nor GEMINI_RPM_LIMIT within one drain cycle.
C1_IssuedRequestsWithinLimits ==
    /\ callsDay <= GEMINI_DAILY_LIMIT
    /\ callsCycle <= GEMINI_RPM_LIMIT

C4_ArchivedNeverQueuedOrAnalysedAgain ==
    [][/\ \A a \in Accessions :
             ArchiveHas(analysis_archive, a) /\ ~Queued(analysis_queue, a)
                 => ~Queued(analysis_queue', a)
       /\ apc = "job" /\ apc' = "archive"
             => ~ArchiveHas(analysis_archive, jobs[ji].accession_number)]_vars

\* C5: a job that has failed maxRetries times has the stored status
\* PERMANENT_FAIL and is not among the jobs of a drain cycle.
C5_PermanentFailAfterMaxRetries ==
    failed.n >= maxRetries =>
        /\ \A r \in analysis_queue :
               r.accession_number = failed.acc => r.status = "PERMANENT_FAIL"
        /\ \A i \in 1..Len(jobs) : jobs[i].accession_number # failed.acc

\* C6: the failures of a job are bounded by maxRetries: after that many the job
\* has reached PERMANENT_FAIL and does not fail again.
C6_FailuresBoundedByMaxRetries ==
    failed.n <= maxRetries

\* the place of a filing in the provider's order, 0 for no filing
Place(acc) == IF acc = None THEN 0 ELSE acc[2]

\* C7: while the storage has not failed and the process has not been restarted,
\* between discovery cycles the watermark of every ticker is the newest filing
\* a cycle observed in the provider's list, and no step moves a watermark back.
C7_WatermarkIsNewestObserved ==
    [][/\ \A t \in Tickers : Place(latest_filings'[t]) >= Place(latest_filings[t])
       /\ dpc' = "idle" /\ faults' = 0
             => \A t \in Tickers : latest_filings'[t] = observed'[t]]_vars

\* several cycles have moved the watermark up to the newest filing
C7_Witness ==
    /\ dpc = "idle"
    /\ faults = 0
    /\ \E t \in Tickers :
         /\ latest_filings[t] = <<t, MaxFilings>>
         /\ observed[t] = <<t, MaxFilings>>
         /\ Queued(analysis_queue, <<t, 1>>)

\* C8: the queue never holds two rows of one accession number, and the upsert
\* of discovery leaves exactly one row of its filing, PENDING and stamped with
\* the time of this upsert.
C8_OneRowPerFiling ==
    [][/\ \A r1, r2 \in analysis_queue' :
             r1.accession_number = r2.accession_number => r1 = r2
       /\ dpc = "upsert" /\ clock' # clock
             => {r \in analysis_queue' :
                     r.accession_number = Reversed(dnew)[di]}
                = {QueueRow(Reversed(dnew)[di], "PENDING", clock)}]_vars

\* a filing that was queued before a newer one has been upserted again
C8_Witness ==
    \E r1, r2 \in analysis_queue :
        /\ r1.accession_number[2] < r2.accession_number[2]
        /\ r1.last_modified_at > r2.last_modified_at

\* C9: the text sent is never longer than TELEGRAM_MAX_LENGTH; a first rendering
\* over the limit makes exactly one shorten_analysis request, a second rendering
\* still over the limit is cut to the limit with the marker at its end, and a
\* rendering within the limit is sent as it is.
C9_RenderedWithinLimit ==
    render # None /\ render.sent =>
        /\ render.len <= TELEGRAM_MAX_LENGTH
        /\ render.shorten = IF render.first > TELEGRAM_MAX_LENGTH THEN 1 ELSE 0
        /\ render.len =
              IF render.first <= TELEGRAM_MAX_LENGTH THEN render.first
              ELSE IF render.second <= TELEGRAM_MAX_LENGTH THEN render.second
              ELSE (TELEGRAM_MAX_LENGTH - TailLength) + TailLength

\* both renderings were over the limit and the text was cut
C9_Witness ==
    /\ render # None
    /\ render.sent
    /\ render.first > TELEGRAM_MAX_LENGTH
    /\ render.second > TELEGRAM_MAX_LENGTH
    /\ render.len = TELEGRAM_MAX_LENGTH
    /\ render.shorten = 1

\* the provider's list the running discovery cycle fetched for its ticker
ListSeen == [i \in 1..dseen |-> <<dticker, dseen + 1 - i>>]

\* C10: when the stored watermark stands at place k of the list, k within
\* DISCOVER_FILING_AMOUNT, and the storage does not fail, the cycle upserts
\* exactly the k filings before it as PENDING, the oldest first and the newest
\* last, and then sets the watermark to the head of the list.
C10_UpsertsOldestFirstThenWatermark ==
    (/\ dpc = "ticker" /\ dnew # <<>> /\ faults = 0
     /\ dlast # None /\ dseen - dlast[2] <= DISCOVER_FILING_AMOUNT)
    => LET k == dseen - dlast[2]
       IN  /\ Len(dnew) = k
           /\ clock = dclock + k
           /\ \A i \in 1..k :
                  QueueRow(ListSeen[i], "PENDING", dclock + (k - i)) \in analysis_queue
           /\ latest_filings[dticker] = ListSeen[1]

\* a cycle has upserted two filings past the watermark and moved it
C10_Witness ==
    /\ dpc = "ticker" /\ faults = 0
    /\ dlast # None
    /\ dseen - dlast[2] = 2
    /\ Len(dnew) = 2
    /\ latest_filings[dticker] = dnew[1]

\* the stored request_count when the stored date is today, 0 when it is not
CountOfToday == IF quota.date = today THEN quota.count ELSE 0

\* C11: a drain cycle that goes on to dequeue was granted
\* min(GEMINI_RPM_LIMIT, GEMINI_DAILY_LIMIT - count), count being the stored
\* request_count if the stored date is today and 0 otherwise, and with
\* count >= GEMINI_DAILY_LIMIT the grant is 0 and no cycle goes on to dequeue.
C11_GrantFromStoredCount ==
    [][apc = "idle" =>
          /\ apc' = "dequeue" =>
                 /\ CountOfToday < GEMINI_DAILY_LIMIT
                 /\ current_count' = CountOfToday
                 /\ has_quota' = Min(GEMINI_RPM_LIMIT,
                                     GEMINI_DAILY_LIMIT - CountOfToday)
          /\ CountOfToday >= GEMINI_DAILY_LIMIT => apc' = "idle"]_vars

\* one request is left of the day and the cycle is granted 1
C11_Witness ==
    /\ apc = "dequeue"
    /\ quota.date = today
    /\ quota.count = GEMINI_DAILY_LIMIT - 1
    /\ has_quota = 1

\* C12: the failure that brings a job to maxRetries failures stores the status
\* FAILED, and only the failure after it stores PERMANENT_FAIL.
C12_FailedThenPermanentFail ==
    /\ failed.n = maxRetries =>
           \A r \in analysis_queue :
               r.accession_number = failed.acc => r.status = "FAILED"
    /\ failed.n = maxRetries + 1 =>
           \A r \in analysis_queue :
               r.accession_number = failed.acc => r.status = "PERMANENT_FAIL"

\* C13: the archive insert and the queue delete of a job are one unit: between
\* drain cycles, also after a restart, no filing is both in the archive and in
\* the queue, and no filing has two archive rows.
C13_ArchiveAndRemoveAtomic ==
    /\ apc = "idle" =>
           \A a \in Accessions :
               ~(ArchiveHas(analysis_archive, a) /\ Queued(analysis_queue, a))
    /\ \A a \in Accessions : analysis_archive[a] <= 1

\* C14: once a ticker's pass of a discovery cycle is over (and the storage has
\* not failed), every filing of the fetched list that is newer than the
\* watermark the pass read has a row in the queue, also when there were more
\* of them than DISCOVER_FILING_AMOUNT.
C14_EveryNewFilingQueued ==
    dpc = "ticker" /\ dnew # <<>> /\ faults = 0 =>
        \A i \in 1..dseen :
            Place(ListSeen[i]) > Place(dlast) => Queued(analysis_queue, ListSeen[i])

\* C15: analysing a job whose filing type has no prompt raises an error, sends
\* no request to the provider and ends in the failure handler.
C15_UnsupportedTypeRaises ==
    request # None /\ request.done /\ request.filing_type \notin PromptTypes =>
        /\ request.raised
        /\ request.requests = 0
        /\ request.outcome = "failure"

\* a job of a filing type without a prompt has been through the analysis step
C15_Witness ==
    /\ request # None
    /\ request.done
    /\ request.filing_type = "13-F"
    /\ request.raised
    /\ request.outcome = "failure"

\* C16: while dequeued jobs remain after the one being processed, no step of
\* that job ends the drain cycle: whatever happens to the job, the loop goes
\* on to the next one.
C16_RemainingJobsProcessed ==
    [][(apc \in {"job", "archive", "send", "remove"} /\ ji < Len(jobs))
           => (apc' # "idle")]_vars

\* C17: a discovery cycle that is not killed ends only when every subscribed
\* ticker has been handled, whatever went wrong with the others (no CIK, a
\* failed fetch, a storage error).
C17_EveryTickerHandled ==
    [][(dpc # "idle" /\ dpc' = "idle" /\ faults' = faults) => (dtodo = {})]_vars

\* ticker A is being upserted after the handling of B failed in the same cycle
C17_Witness ==
    /\ dpc = "upsert"
    /\ dticker = "A"
    /\ "B" \in skipped

\* C18: the delivery step of a job whose users could be read tries every user
\* of the ticker, whichever sends fail, and the job goes on to its removal
\* from the queue without being recorded as failed.
C18_SendFailureIsolated ==
    [][(apc = "send" /\ fault = "ok" /\ apc' # "send")
           => /\ apc' = "remove"
              /\ attempted' = get_users_for_ticker(Job.ticker, "ok")
              /\ failed' = failed]_vars

\* a cycle whose jobs all succeeded although a send of the last delivery failed
C18_Witness ==
    /\ apc = "quota"
    /\ send_failed
    /\ attempted = Recipients
    /\ Len(jobs) >= 1
    /\ success_count = Len(jobs)

\* C19: never more than one instance of the drain job runs, and no run time
\* is queued behind a running or starting cycle.
C19_SingleFlight ==
    /\ Instances <= 1
    /\ timer.queued = 0

\* the run times that came due during a running cycle were processed
\* together and rejected; the cycle is still running
C19_Witness ==
    /\ apc \notin {"idle", "dequeue"}
    /\ timer.rejected
    /\ timer.merged = MaxDue
    /\ timer.due = 0

\* C20: the step that ends a drain cycle in which jobs succeeded leaves the
\* stored request_count at the count read when the cycle started plus the
\* number of those jobs.
C20_UsageRecordedAtCycleEnd ==
    [][(apc # "idle" /\ apc' = "idle" /\ success_count > 0)
           => (quota'.count = current_count + success_count)]_vars

\* C21: the step in which the extraction or the analysis of a job fails leaves
\* the job's queue row with the status FAILED or PERMANENT_FAIL.
C21_FailurePersisted ==
    [][(apc = "job" /\ apc' = "idle")
           => (\A r \in analysis_queue' :
                   r.accession_number = Job.accession_number
                       => r.status \in {"FAILED", "PERMANENT_FAIL"})]_vars

\* C22: a job that is read from the queue after it has failed carries the
\* number of its failures as retry_count.
C22_RetryCountSurvives ==
    (apc = "job" /\ failed.acc = Job.accession_number)
        => Job.retry_count = failed.n

C24_MalformedAnswerFails ==
    (/\ request # None
     /\ request.done
     /\ request.filing_type \in PromptTypes
     /\ request.extracted = "data"
     /\ request.provider \in {"partial", "no_json"})
        => request.outcome = "failure"

\* C25: a job whose last failure was a precondition error (its ticker has no
\* CIK, its filing type has no prompt) is never the job of a drain cycle again.
C25_PreconditionErrorNotRetried ==
    (apc = "job" /\ failed.acc = Job.accession_number)
        => failed.cause # "precondition"

\* C26: when the delivery step of a job ends the drain cycle (the process is
\* not killed), the filing is not left both in the archive and in the queue
\* with the status PENDING or FAILED.
C26_DeliveryFailureNotRequeued ==
    [][(apc = "send" /\ apc' = "idle" /\ faults' = faults)
           => ~(/\ ArchiveHas(analysis_archive', Job.accession_number)
                /\ \E r \in analysis_queue' :
                       /\ r.accession_number = Job.accession_number
                       /\ r.status \in {"PENDING", "FAILED"})]_vars

\* C27: the delivery of a job goes through to the removal of its queue row
\* only when the filing has an archive record.
C27_DeliveredOnlyIfArchived ==
    [][(apc = "send" /\ apc' = "remove")
           => ArchiveHas(analysis_archive, Job.accession_number)]_vars

C29_EarlierDayNotCarried ==
    [][(apc = "quota" /\ quota' # quota /\ quota.date # today)
           => quota'.count <= success_count]_vars

\* C30: a drain cycle whose read of the quota row fails is granted nothing: it
\* does not go on to dequeue.
C30_UnreadableQuotaGrantsNothing ==
    [][(apc = "idle" /\ fault # "ok") => (apc' # "dequeue")]_vars

\* C31: when a job raises out of _process_single_job after earlier jobs of the
\* same drain cycle succeeded, the quota row holds today's date and the count
\* read at the start of the cycle plus those successes.
C31_SuccessesRecordedDespiteRaise ==
    [][(/\ apc \in {"job", "archive", "send", "remove"}
        /\ apc' = "idle"
        /\ success_count > 0)
           => (/\ quota'.date = today
               /\ quota'.count = current_count + success_count)]_vars

\* C32: the dequeue of a drain cycle whose storage works returns
\* min(limit, number of PENDING rows) jobs, each of a PENDING row, in ascending
\* last_modified_at with no older PENDING row left out, and changes no row.
C32_DequeueOldestPending ==
    [][(apc = "dequeue" /\ apc' # "dequeue" /\ fault = "ok" /\ faults' = faults)
           => LET pending == {r \in analysis_queue : r.status = "PENDING"}
              IN  /\ Len(jobs') = Min(has_quota, Cardinality(pending))
                  /\ \A i \in 1..Len(jobs') :
                        \E r \in pending :
                            /\ r.accession_number = jobs'[i].accession_number
                            /\ \A s \in pending :
                                  s.last_modified_at < r.last_modified_at
                                      => \E j \in 1..(i - 1) :
                                            jobs'[j].accession_number
                                                = s.accession_number
                  /\ analysis_queue' = analysis_queue]_vars

\* the queue holds a PENDING row of filing a
IsPending(a) ==
    \E r \in analysis_queue : r.accession_number = a /\ r.status = "PENDING"

\* C33: while both loops keep running (so drain cycles with a grant keep
\* occurring), every filing with a PENDING row eventually has no PENDING row
\* any more: it was archived and removed, or marked FAILED / PERMANENT_FAIL.
C33_NoPendingStarves ==
    \A a \in Accessions : IsPending(a) ~> ~IsPending(a)

\* C34: the upsert of discovery changes nothing but status and
\* last_modified_at of the row of its filing and leaves every other row as it
\* is; and the dequeue of a drain cycle whose storage works yields, for every
\* row it selects, a job with the row's accession_number, ticker, filing_type
\* and filing_url and with the filing_date given at creation.
C34_UpsertKeepsCreationFields ==
    [][/\ (dpc = "upsert" /\ clock' # clock)
             => \A r \in analysis_queue :
                    IF r.accession_number = Reversed(dnew)[di]
                    THEN \E r2 \in analysis_queue' :
                            r2 = [r EXCEPT !.status = r2.status,
                                           !.last_modified_at = r2.last_modified_at]
                    ELSE r \in analysis_queue'
       /\ (apc = "dequeue" /\ apc' # "dequeue" /\ fault = "ok" /\ faults' = faults)
             => LET rows == SelectPending(analysis_queue, has_quota)
                IN  \A i \in 1..Len(rows) :
                        /\ i <= Len(jobs')
                        /\ jobs'[i].accession_number = rows[i].accession_number
                        /\ jobs'[i].ticker = rows[i].ticker
                        /\ jobs'[i].filing_type = rows[i].filing_type
                        /\ jobs'[i].filing_url = rows[i].filing_url
                        /\ "filing_date" \in DOMAIN jobs'[i]]_vars

\* C35: the step that writes the watermark of a ticker finds every filing the
\* cycle collected for it stored in the queue: after an upsert that failed the
\* watermark is not written.
C35_WatermarkAfterStored ==
    [][(dpc = "mark" /\ latest_filings' # latest_filings)
           => \A i \in 1..Len(dnew) : Queued(analysis_queue, dnew[i])]_vars

\* C36: a ticker's pass of a discovery cycle collects and upserts at most
\* DISCOVER_FILING_AMOUNT filings; when it read no watermark it collects the
\* newest filings of the list, as many as the cap allows, and its watermark
\* write (the storage working) stores the newest filing of the list.
C36_CappedAndFromNewest ==
    [][/\ Len(dnew') <= DISCOVER_FILING_AMOUNT
       /\ (dpc = "upsert" /\ clock' # clock) => di <= DISCOVER_FILING_AMOUNT
       /\ (dpc = "ticker" /\ dpc' = "upsert" /\ dlast' = None)
             => /\ Len(dnew') = Min(dseen', DISCOVER_FILING_AMOUNT)
                /\ \A i \in 1..Len(dnew') : dnew'[i] = ListSeen'[i]
       /\ (/\ dpc = "mark" /\ dpc' # "mark" /\ dlast = None
           /\ fault = "ok" /\ faults' = faults)
             => latest_filings'[dticker] = ListSeen[1]]_vars

\* a first pass over a list longer than the cap has created the watermark
C36_Witness ==
    /\ dpc = "ticker"
    /\ dlast = None
    /\ dseen > DISCOVER_FILING_AMOUNT
    /\ Len(dnew) = DISCOVER_FILING_AMOUNT
    /\ latest_filings[dticker] = <<dticker, dseen>>
    /\ ~Queued(analysis_queue, <<dticker, 1>>)

\* C37: a ticker's pass of a discovery cycle whose fetch failed or returned an
\* empty list, or (the watermark being readable) whose newest list entry is
\* the stored watermark, collects nothing and ends at once: it writes neither
\* the watermark row nor any row of the queue.
C37_NothingNewNothingWritten ==
    [][(/\ dpc = "ticker" /\ dtodo' # dtodo /\ faults' = faults
        /\ \/ dseen' = 0
           \/ fault = "ok" /\ latest_filings[dticker'] = <<dticker', dseen'>>)
           => (/\ dnew' = <<>>
               /\ dpc' = "ticker"
               /\ latest_filings' = latest_filings
               /\ analysis_queue' = analysis_queue)]_vars

\* a pass has just found the watermark at the head of the list; the rows of
\* the earlier passes are as they were
C37_Witness ==
    /\ dpc = "ticker"
    /\ dseen > 0
    /\ dlast = <<dticker, dseen>>
    /\ dnew = <<>>
    /\ latest_filings[dticker] = dlast
    /\ Queued(analysis_queue, dlast)

\* C38: a queue row with the status PERMANENT_FAIL is in the queue, unchanged,
\* after every step.
C38_PermanentFailStays ==
    [][\A r \in analysis_queue :
           r.status = "PERMANENT_FAIL" => r \in analysis_queue']_vars

\* the statuses the program stores in the queue
C38_StoredStatuses ==
    \A r \in analysis_queue : r.status = "PENDING"

====
